---- MODULE Spec2Model ----
(***************************************************************************)
(* A model of merge_plugins.py: the tool that copies or merges the plugin  *)
(* trees of dwa_usd_plugins into a USD checkout.                           *)
(*                                                                         *)
(* The two filesystem trees (the tool's own directory THIS_DIR and the     *)
(* destination checkout) are functions from relative paths to entries.     *)
(* An entry has a kind ("none" when nothing is there, "file", "dir", or    *)
(* "other" for an existing object that is neither, such as a FIFO) and,    *)
(* for a file, its content.  One run of the tool is a sequence of steps    *)
(* over an explicit call stack of merge_plugin / merge_dir / merge_file    *)
(* frames; an uncaught exception ends the run in pc = "failed".            *)
(***************************************************************************)
EXTENDS Naturals, Sequences, FiniteSets, TLC

(* Number of invocations of the tool against the same destination. *)
MaxRuns == 2

---------------------------------------------------------------------------
(* Paths: sequences of names relative to a root. *)

Root == <<>>
ThirdParty == <<"third_party">>
Nuke == <<"third_party", "nuke">>
NukePlugin == <<"third_party", "nuke", "plugin">>
NukeMenu == <<"third_party", "nuke", "plugin", "menu.py">>
NukeReadme == <<"third_party", "nuke", "README.md">>
Houdini == <<"third_party", "houdini">>
Cmake == <<"cmake">>
CMakeLists == <<"CMakeLists.txt">>
BuildScripts == <<"build_scripts">>
Pxr == <<"pxr">>
PxrH == <<"pxr", "pxr.h.in">>

(* The paths of the model, every path after its parent. *)
PathList ==
    << Root, ThirdParty, Nuke, NukePlugin, NukeMenu, NukeReadme, Houdini,
       Cmake, CMakeLists, BuildScripts, Pxr, PxrH >>

Paths == { PathList[i] : i \in 1..Len(PathList) }

AVAILABLE_PLUGINS ==
    [ nuke |-> [ files |-> << Nuke, Cmake, CMakeLists, BuildScripts >> ],
      houdini_hydra |-> [ files |-> << Houdini >> ] ]

PluginNames == DOMAIN AVAILABLE_PLUGINS

---------------------------------------------------------------------------
(* Filesystem entries and the os / os.path / shutil calls the tool makes. *)

NoEntry == [kind |-> "none", data |-> <<>>]
DirEntry == [kind |-> "dir", data |-> <<>>]
OtherEntry == [kind |-> "other", data |-> <<>>]
FileEntry(d) == [kind |-> "file", data |-> d]

(* Content of the file p as shipped by the tool, as found in an untouched  *)
(* checkout, and as left by a run of the merge helper.                     *)
SrcData(p) == <<"dwa">> \o p
UsdData(p) == <<"usd">> \o p
MergedData(p) == <<"merged">> \o p

Parent(p) == SubSeq(p, 1, Len(p) - 1)

IsPrefix(p, q) == Len(p) <= Len(q) /\ SubSeq(q, 1, Len(p)) = p

(* Proper ancestors of p, the root included. *)
Ancestors(p) == { SubSeq(p, 1, n) : n \in 0..(Len(p) - 1) }

(* A tree: every entry that is there lies in a directory. *)
WellFormed(fs) ==
    \A p \in Paths : (p # Root /\ fs[p].kind # "none") => fs[Parent(p)].kind = "dir"

exists(fs, p) == fs[p].kind # "none"
isdir(fs, p) == fs[p].kind = "dir"
isfile(fs, p) == fs[p].kind = "file"

Children(fs, p) == { q \in Paths : q # Root /\ Parent(q) = p /\ fs[q].kind # "none" }

(* os.listdir: the children in the order the directory yields them, which  *)
(* is the order of the sequence ord restricted to the directory.           *)
listdir(fs, p, ord) == SelectSeq(ord, LAMBDA q : q \in Children(fs, p))

NoError == [msg |-> "", arg |-> <<>>]
Error(m, a) == [msg |-> m, arg |-> a]

(* os.makedirs(p): creates p and its missing ancestors; raises when p is   *)
(* there already or when an ancestor is there and is no directory.         *)
makedirs(fs, p) ==
    IF exists(fs, p) \/ \E a \in Ancestors(p) : fs[a].kind \notin {"none", "dir"}
    THEN [raise |-> Error("OSError", p), fs |-> fs]
    ELSE [raise |-> NoError,
          fs |-> [q \in Paths |->
                    IF q = p \/ q \in Ancestors(p) THEN DirEntry ELSE fs[q]]]

(* copyfile opening its target for appending *)
copyfile_append(from, fs, p) ==
    IF fs[p].kind \in {"dir", "other"} \/ fs[Parent(p)].kind # "dir"
    THEN [raise |-> Error("IOError", p), fs |-> fs]
    ELSE [raise |-> NoError,
          fs |-> [fs EXCEPT ![p] = FileEntry(fs[p].data \o from[p].data)]]

(* copyfile removing whatever is at its target first *)
copyfile_clobber(from, fs, p) ==
    IF fs[Parent(p)].kind # "dir"
    THEN [raise |-> Error("IOError", p), fs |-> fs]
    ELSE [raise |-> NoError,
          fs |-> [q \in Paths |->
                    IF q = p THEN FileEntry(from[p].data)
                    ELSE IF IsPrefix(p, q) THEN NoEntry ELSE fs[q]]]

(* shutil.copyfile(THIS_DIR/p, out/p) for a regular source file: opening   *)
(* the target for writing raises when it is a directory or a special file  *)
(* or when its parent is no directory; otherwise the target gets the       *)
(* source's content.                                                       *)
copyfile(from, fs, p) ==
    IF fs[p].kind \in {"dir", "other"} \/ fs[Parent(p)].kind # "dir"
    THEN [raise |-> Error("IOError", p), fs |-> fs]
    ELSE [raise |-> NoError, fs |-> [fs EXCEPT ![p] = FileEntry(from[p].data)]]

(* copytree copying the files of the directory but no directory below it *)
copytree_shallow(from, fs, p) ==
    LET made == makedirs(fs, p)
        below == { q \in Paths : Parent(q) = p /\ q # Root /\ from[q].kind = "file" }
    IN  IF made.raise # NoError
        THEN made
        ELSE [raise |-> NoError,
              fs |-> [q \in Paths |-> IF q \in below THEN from[q] ELSE made.fs[q]]]

(* shutil.copytree(THIS_DIR/p, out/p): os.makedirs(out/p), then every      *)
(* directory below is created and every regular file copied; an entry that *)
(* is neither is skipped and makes copytree raise shutil.Error once the    *)
(* rest has been copied.                                                   *)
copytree(from, fs, p) ==
    LET made == makedirs(fs, p)
        below == { q \in Paths : IsPrefix(p, q) /\ from[q].kind # "none" }
        special == { q \in below : from[q].kind = "other" }
    IN  IF made.raise # NoError
        THEN made
        ELSE [raise |-> IF special = {} THEN NoError ELSE Error("shutil.Error", p),
              fs |-> [q \in Paths |->
                        IF q \in below \ special THEN from[q] ELSE made.fs[q]]]

(* make_parent_dirs(path): the parent directories of out/p. *)
make_parent_dirs(fs, p) ==
    IF ~exists(fs, Parent(p)) THEN makedirs(fs, Parent(p))
    ELSE [raise |-> NoError, fs |-> fs]

---------------------------------------------------------------------------
(* The trees the tool may be started on. *)

(* The entry of kind k at the path p, a file holding the text of origin. *)
Entry(origin, k, p) ==
    CASE k = "file" -> FileEntry(<<origin>> \o p)
      [] k = "dir" -> DirEntry
      [] k = "other" -> OtherEntry
      [] OTHER -> NoEntry

(* The kinds each path takes in the tool's own directory. *)
SrcKinds ==
    (Root :> {"dir"}) @@ (ThirdParty :> {"dir"})
    @@ (Nuke :> {"none", "file", "dir", "other"})
    @@ (NukePlugin :> {"none", "file", "dir", "other"})
    @@ (NukeMenu :> {"none", "file"})
    @@ (NukeReadme :> {"none", "file"})
    @@ (Houdini :> {"dir"})
    @@ (Cmake :> {"dir"})
    @@ (CMakeLists :> {"none", "file"})
    @@ (BuildScripts :> {"dir"})
    @@ (Pxr :> {"none"}) @@ (PxrH :> {"none"})

(* The kinds each path takes in a checkout that validates. *)
UsdKinds ==
    (Root :> {"dir"}) @@ (ThirdParty :> {"none", "file", "dir"})
    @@ (Nuke :> {"none", "file", "dir"})
    @@ (NukePlugin :> {"none", "file", "dir"})
    @@ (NukeMenu :> {"none", "file"})
    @@ (NukeReadme :> {"none", "file"})
    @@ (Houdini :> {"none", "dir"})
    @@ (Cmake :> {"none"})
    @@ (CMakeLists :> {"none", "file"})
    @@ (BuildScripts :> {"none"})
    @@ (Pxr :> {"dir"}) @@ (PxrH :> {"file"})

(* The kinds each path takes in the other destinations tried. *)
BadKinds ==
    (Root :> {"none", "file", "dir"}) @@ (ThirdParty :> {"none"})
    @@ (Nuke :> {"none"}) @@ (NukePlugin :> {"none"})
    @@ (NukeMenu :> {"none"}) @@ (NukeReadme :> {"none"})
    @@ (Houdini :> {"none"}) @@ (Cmake :> {"none"})
    @@ (CMakeLists :> {"none", "file"})
    @@ (BuildScripts :> {"none"})
    @@ (Pxr :> {"none", "dir"}) @@ (PxrH :> {"none", "file"})

(* The well-formed trees over the first n paths, path p of kind kinds[p]   *)
(* wherever its parent is a directory.                                     *)
RECURSIVE Trees(_, _, _)
Trees(kinds, origin, n) ==
    IF n = 1
    THEN { (Root :> Entry(origin, k, Root)) : k \in kinds[Root] }
    ELSE LET p == PathList[n]
         IN  UNION { { t @@ (p :> e) :
                         e \in { IF t[Parent(p)].kind = "dir" THEN Entry(origin, k, p)
                                   ELSE NoEntry :
                                   k \in kinds[p] } } :
                     t \in Trees(kinds, origin, n - 1) }

SrcTrees == Trees(SrcKinds, "dwa", Len(PathList))
UsdTrees == Trees(UsdKinds, "usd", Len(PathList)) \cup Trees(BadKinds, "usd", Len(PathList))

Reverse(s) == [i \in 1..Len(s) |-> s[Len(s) + 1 - i]]

(* Directory orders os.listdir may yield. *)
ListOrders == { PathList, Reverse(PathList) }

(* The directories the tool may list, and the orders that list some of     *)
(* them differently in the tree fs (the others are one order to the tool). *)
Listed == { Nuke, NukePlugin, Houdini, Cmake, BuildScripts }

ListOrdersOf(fs) ==
    { o \in ListOrders :
        o = PathList \/ \E p \in Listed : listdir(fs, p, o) # listdir(fs, p, PathList) }

(* Iteration orders of the dict AVAILABLE_PLUGINS. *)
DictOrders == { <<"nuke", "houdini_hydra">>, <<"houdini_hydra", "nuke">> }

(* Command lines: the plugin flags in the order they are given. *)
Argvs == { <<>>, <<"nuke">>, <<"houdini_hydra">>,
           <<"nuke", "houdini_hydra">>, <<"houdini_hydra", "nuke">> }

Range(s) == { s[i] : i \in 1..Len(s) }

---------------------------------------------------------------------------
(* The state of the tool and of the two trees. *)

VARIABLES
    src,        \* the tree under THIS_DIR
    dst,        \* the tree under the usd_dir argument
    HAS_MERGE,  \* whether a "merge" executable was found at import
    USD_DIR,    \* the global set by validate_usd_dir, "None" before
    argv,       \* the plugin flags of the command line, in the order given
    dictOrder,  \* the order in which AVAILABLE_PLUGINS iterates
    lsOrder,    \* the order in which os.listdir yields entries
    pc,         \* "start", "plugins", "done" (exit status 0) or "failed"
    pi,         \* position of the loop of run() in the plugin names
    stack,      \* the frames of merge_plugin, merge_dir and merge_file
    out,        \* the lines printed, each with the plugin being merged
    calls,      \* the merge commands run, each with its exit status
    error,      \* the uncaught exception, NoError while there is none
    merged,     \* the plugins whose merge_plugin call returned in this run
    runs,       \* the number of the current invocation
    dstStart    \* the destination tree when the current invocation began

vars == << src, dst, HAS_MERGE, USD_DIR, argv, dictOrder, lsOrder, pc, pi,
           stack, out, calls, error, merged, runs, dstStart >>

env == << src, HAS_MERGE, argv, dictOrder, lsOrder, runs, dstStart >>

(* os.path.join(root, p) *)
join(root, p) == <<root>> \o p

Frame(fn, plugin, path) ==
    [fn |-> fn, plugin |-> plugin, path |-> path, i |-> 0, items |-> <<>>]

Top == stack[Len(stack)]
Pop == SubSeq(stack, 1, Len(stack) - 1)
SetTop(f) == [stack EXCEPT ![Len(stack)] = f]

(* The plugin whose merge_plugin call is running. *)
CurPlugin == stack[1].plugin

Line(l, p) == [line |-> l, path |-> p, plugin |-> CurPlugin]

Init ==
    /\ src \in SrcTrees
    /\ dst \in UsdTrees
    /\ HAS_MERGE \in BOOLEAN
    /\ argv \in Argvs
    /\ dictOrder \in DictOrders
    /\ lsOrder \in ListOrdersOf(src)
    /\ USD_DIR = "None"
    /\ pc = "start"
    /\ pi = 1
    /\ stack = <<>>
    /\ out = <<>>
    /\ calls = <<>>
    /\ error = NoError
    /\ merged = {}
    /\ runs = 1
    /\ dstStart = dst

(* validate_usd_dir without its test of the marker file *)
validate_usd_dir_no_marker(fs) ==
    IF ~exists(fs, Root) \/ ~isdir(fs, Root)
    THEN Error("is not a valid directory", <<"usd_dir">>)
    ELSE NoError

(* validate_usd_dir: the exception raised for the tree fs, NoError if none *)
validate_usd_dir(fs) ==
    IF ~exists(fs, Root) \/ ~isdir(fs, Root)
    THEN Error("is not a valid directory", <<"usd_dir">>)
    ELSE IF ~exists(fs, PxrH)
    THEN Error("is not a valid USD repo", <<"usd_dir">>)
    ELSE NoError

(* run(), up to the loop over the plugins: the arguments are parsed and     *)
(* the destination validated.                                               *)
run_validate ==
    /\ pc = "start"
    /\ LET e == validate_usd_dir(dst)
       IN  IF e # NoError
           THEN /\ pc' = "failed"
                /\ error' = e
                /\ USD_DIR' = USD_DIR
           ELSE /\ pc' = "plugins"
                /\ error' = error
                /\ USD_DIR' = "usd_dir"
    /\ UNCHANGED << dst, pi, stack, out, calls, merged, env >>

(* The loop of run() taking the flags in the order of the command line *)
plugin_names_argv(order, args) ==
    args \o SelectSeq(order, LAMBDA n : n \notin Range(args))

(* The plugin names in the order the loop of run() takes them. *)
plugin_names(order, args) == order

(* run(), one turn of the loop over AVAILABLE_PLUGINS *)
run_next ==
    /\ pc = "plugins"
    /\ stack = <<>>
    /\ pi <= Len(plugin_names(dictOrder, argv))
    /\ LET plugin_name == plugin_names(dictOrder, argv)[pi]
       IN  stack' = IF plugin_name \in Range(argv)
                    THEN << Frame("merge_plugin", plugin_name, Root) >>
                    ELSE <<>>
    /\ pi' = pi + 1
    /\ UNCHANGED << dst, USD_DIR, pc, out, calls, error, merged, env >>

(* run() returns: the process exits with status 0 *)
run_return ==
    /\ pc = "plugins"
    /\ stack = <<>>
    /\ pi > Len(plugin_names(dictOrder, argv))
    /\ pc' = "done"
    /\ UNCHANGED << dst, USD_DIR, pi, stack, out, calls, error, merged, env >>

(* merge_plugin passing over a declared path that is missing *)
merge_plugin_path_skip(fs, rel) ==
    IF ~exists(fs, rel) THEN [raise |-> NoError, call |-> ""]
    ELSE IF isdir(fs, rel) THEN [raise |-> NoError, call |-> "merge_dir"]
    ELSE IF isfile(fs, rel) THEN [raise |-> NoError, call |-> "merge_file"]
    ELSE [raise |-> Error("Unknown file situation", join("THIS_DIR", rel)), call |-> ""]

(* merge_plugin, the body of its loop for the declared path rel: the       *)
(* exception raised, or the function called.                               *)
merge_plugin_path(fs, rel) ==
    IF ~exists(fs, rel)
    THEN [raise |-> Error("dwa_usd_plugins file does not exist", join("THIS_DIR", rel)),
          call |-> ""]
    ELSE IF isdir(fs, rel) THEN [raise |-> NoError, call |-> "merge_dir"]
    ELSE IF isfile(fs, rel) THEN [raise |-> NoError, call |-> "merge_file"]
    ELSE [raise |-> Error("Unknown file situation", join("THIS_DIR", rel)), call |-> ""]

(* merge_plugin, one turn of its loop over the declared paths *)
merge_plugin_next ==
    /\ pc = "plugins"
    /\ stack # <<>>
    /\ Top.fn = "merge_plugin"
    /\ Top.i < Len(AVAILABLE_PLUGINS[Top.plugin].files)
    /\ LET relative_file == AVAILABLE_PLUGINS[Top.plugin].files[Top.i + 1]
           step == merge_plugin_path(src, relative_file)
           next == SetTop([Top EXCEPT !.i = @ + 1])
       IN  IF step.raise # NoError
           THEN /\ pc' = "failed"
                /\ error' = step.raise
                /\ stack' = stack
           ELSE /\ pc' = pc
                /\ error' = error
                /\ stack' = IF step.call = "" THEN next
                            ELSE Append(next, Frame(step.call, Top.plugin, relative_file))
    /\ UNCHANGED << dst, USD_DIR, pi, out, calls, merged, env >>

(* merge_plugin returns *)
merge_plugin_return ==
    /\ pc = "plugins"
    /\ stack # <<>>
    /\ Top.fn = "merge_plugin"
    /\ Top.i = Len(AVAILABLE_PLUGINS[Top.plugin].files)
    /\ stack' = Pop
    /\ merged' = merged \cup {Top.plugin}
    /\ UNCHANGED << dst, USD_DIR, pc, pi, out, calls, error, env >>

(* merge_dir when nothing is at the destination: the parents are made and  *)
(* the tree copied.                                                        *)
merge_dir_copy ==
    /\ pc = "plugins"
    /\ stack # <<>>
    /\ Top.fn = "merge_dir"
    /\ Top.i = 0
    /\ ~exists(dst, Top.path)
    /\ LET dir_path == Top.path
           parents == make_parent_dirs(dst, dir_path)
           copied == copytree(src, parents.fs, dir_path)
       IN  IF parents.raise # NoError
           THEN /\ pc' = "failed"
                /\ error' = parents.raise
                /\ UNCHANGED << dst, out, stack >>
           ELSE /\ out' = Append(out, Line("Copying", dir_path))
                /\ dst' = copied.fs
                /\ IF copied.raise # NoError
                   THEN /\ pc' = "failed"
                        /\ error' = copied.raise
                        /\ stack' = stack
                   ELSE /\ pc' = pc
                        /\ error' = error
                        /\ stack' = Pop
    /\ UNCHANGED << USD_DIR, pi, calls, merged, env >>

(* merge_dir when something is at the destination: the directory is listed *)
merge_dir_list ==
    /\ pc = "plugins"
    /\ stack # <<>>
    /\ Top.fn = "merge_dir"
    /\ Top.i = 0
    /\ exists(dst, Top.path)
    /\ stack' = SetTop([Top EXCEPT !.i = 1, !.items = listdir(src, Top.path, lsOrder)])
    /\ UNCHANGED << dst, USD_DIR, pc, pi, out, calls, error, merged, env >>

(* merge_dir passing over an entry that is neither file nor directory *)
merge_dir_item_skip(fs, item_path) ==
    IF isfile(fs, item_path) THEN [raise |-> NoError, call |-> "merge_file"]
    ELSE IF isdir(fs, item_path) THEN [raise |-> NoError, call |-> "merge_dir"]
    ELSE [raise |-> NoError, call |-> ""]

(* merge_dir merging the files of the directory but no directory in it *)
merge_dir_item_flat(fs, item_path) ==
    IF isfile(fs, item_path) THEN [raise |-> NoError, call |-> "merge_file"]
    ELSE IF isdir(fs, item_path) THEN [raise |-> NoError, call |-> ""]
    ELSE [raise |-> Error("Don't know what to do with", << item_path[Len(item_path)] >>),
          call |-> ""]

(* merge_dir, the body of its loop for the entry item_path: the exception  *)
(* raised, or the function called.                                         *)
merge_dir_item(fs, item_path) ==
    IF isfile(fs, item_path) THEN [raise |-> NoError, call |-> "merge_file"]
    ELSE IF isdir(fs, item_path) THEN [raise |-> NoError, call |-> "merge_dir"]
    ELSE [raise |-> Error("Don't know what to do with", << item_path[Len(item_path)] >>),
          call |-> ""]

(* merge_dir, one turn of its loop over the listing *)
merge_dir_next ==
    /\ pc = "plugins"
    /\ stack # <<>>
    /\ Top.fn = "merge_dir"
    /\ Top.i = 1
    /\ Top.items # <<>>
    /\ LET item_path == Head(Top.items)
           step == merge_dir_item(src, item_path)
           next == SetTop([Top EXCEPT !.items = Tail(@)])
       IN  IF step.raise # NoError
           THEN /\ pc' = "failed"
                /\ error' = step.raise
                /\ stack' = stack
           ELSE /\ pc' = pc
                /\ error' = error
                /\ stack' = IF step.call = "" THEN next
                            ELSE Append(next, Frame(step.call, Top.plugin, item_path))
    /\ UNCHANGED << dst, USD_DIR, pi, out, calls, merged, env >>

(* merge_dir returns once the listing is exhausted *)
merge_dir_return ==
    /\ pc = "plugins"
    /\ stack # <<>>
    /\ Top.fn = "merge_dir"
    /\ Top.i = 1
    /\ Top.items = <<>>
    /\ stack' = Pop
    /\ UNCHANGED << dst, USD_DIR, pc, pi, out, calls, error, merged, env >>

(* merge_file copying only when both conditions hold *)
copies_and(fs, file_path, has_merge) == ~exists(fs, file_path) /\ ~has_merge

(* merge_file: whether the file is copied rather than merged *)
copies(fs, file_path, has_merge) == ~exists(fs, file_path) \/ ~has_merge

(* merge_file, the branch that copies *)
merge_file_copy ==
    /\ pc = "plugins"
    /\ stack # <<>>
    /\ Top.fn = "merge_file"
    /\ copies(dst, Top.path, HAS_MERGE)
    /\ LET file_path == Top.path
           parents == make_parent_dirs(dst, file_path)
           copied == copyfile(src, parents.fs, file_path)
       IN  IF parents.raise # NoError
           THEN /\ pc' = "failed"
                /\ error' = parents.raise
                /\ UNCHANGED << dst, out, stack >>
           ELSE /\ dst' = copied.fs
                /\ IF copied.raise # NoError
                   THEN /\ pc' = "failed"
                        /\ error' = copied.raise
                        /\ UNCHANGED << out, stack >>
                   ELSE /\ pc' = pc
                        /\ error' = error
                        /\ out' = Append(out, Line("Copying", file_path))
                        /\ stack' = Pop
    /\ UNCHANGED << USD_DIR, pi, calls, merged, env >>

(* The merge command line. *)
merge_cmd(out_file, in_file) == << "merge", out_file, out_file, in_file >>

(* What a run of the merge program may do to its first argument: merge     *)
(* cleanly (the file takes the incoming text, exit status 0), leave        *)
(* conflict markers (status 1) or fail without writing (status 2, the only *)
(* outcome when the argument is no regular file).                          *)
HelperOutcomes(fs, p) ==
    IF isfile(fs, p) THEN {"clean", "conflict", "trouble"} ELSE {"trouble"}

ExitStatus(o) == CASE o = "clean" -> 0 [] o = "conflict" -> 1 [] OTHER -> 2

HelperWrites(from, fs, p, o) ==
    CASE o = "clean" -> [fs EXCEPT ![p] = FileEntry(from[p].data)]
      [] o = "conflict" -> [fs EXCEPT ![p] = FileEntry(MergedData(p))]
      [] OTHER -> fs

(* merge_file raising on a failed merge *)
merge_result_raise(file_path, result) ==
    [lines |-> IF result # 0 THEN << "Failed merge" >> ELSE <<>>,
     raise |-> IF result # 0 THEN Error("Failed merge", file_path) ELSE NoError]

(* merge_file after subprocess.call returned result: the lines printed and *)
(* the exception raised.                                                   *)
merge_result(file_path, result) ==
    [lines |-> IF result # 0 THEN << "Failed merge" >> ELSE <<>>, raise |-> NoError]

(* merge_file, the branch that runs the merge program *)
merge_file_merge ==
    /\ pc = "plugins"
    /\ stack # <<>>
    /\ Top.fn = "merge_file"
    /\ ~copies(dst, Top.path, HAS_MERGE)
    /\ \E o \in HelperOutcomes(dst, Top.path) :
         LET file_path == Top.path
             result == ExitStatus(o)
             after == merge_result(file_path, result)
             printed == << "Merging" >> \o after.lines
         IN  /\ calls' = Append(calls,
                    [cmd |-> merge_cmd(join(USD_DIR, file_path), join("THIS_DIR", file_path)),
                     result |-> result])
             /\ dst' = HelperWrites(src, dst, file_path, o)
             /\ out' = out \o [k \in 1..Len(printed) |-> Line(printed[k], file_path)]
             /\ IF after.raise # NoError
                THEN /\ pc' = "failed"
                     /\ error' = after.raise
                     /\ stack' = stack
                ELSE /\ pc' = pc
                     /\ error' = error
                     /\ stack' = Pop
    /\ UNCHANGED << USD_DIR, pi, merged, env >>

(* The tool is invoked again, with the same command line, on the           *)
(* destination as the previous invocation left it.                         *)
invoke_again ==
    /\ pc \in {"done", "failed"}
    /\ runs < MaxRuns
    /\ runs' = runs + 1
    /\ dstStart' = dst
    /\ pc' = "start"
    /\ pi' = 1
    /\ stack' = <<>>
    /\ out' = <<>>
    /\ calls' = <<>>
    /\ error' = NoError
    /\ merged' = {}
    /\ USD_DIR' = "None"
    /\ UNCHANGED << src, dst, HAS_MERGE, argv, dictOrder, lsOrder >>

Next ==
    \/ run_validate
    \/ run_next
    \/ run_return
    \/ merge_plugin_next
    \/ merge_plugin_return
    \/ merge_dir_copy
    \/ merge_dir_list
    \/ merge_dir_next
    \/ merge_dir_return
    \/ merge_file_copy
    \/ merge_file_merge
    \/ invoke_again

Spec == Init /\ [][Next]_vars

---------------------------------------------------------------------------
(* Properties. *)

Files(n) == AVAILABLE_PLUGINS[n].files
Declared(n) == Range(Files(n))

(* The position of x in the sequence s, Len(s) + 1 if it is not in it. *)
Pos(s, x) == IF x \in Range(s) THEN CHOOSE i \in 1..Len(s) : s[i] = x ELSE Len(s) + 1

(* A destination that exists, is a directory and holds pxr/pxr.h.in. *)
ValidDestination(fs) == fs[Root].kind = "dir" /\ fs[PxrH].kind # "none"

(* The lines printed about paths at or below p. *)
LinesBelow(p) == { k \in 1..Len(out) : IsPrefix(p, out[k].path) }

(* What a printed "Copying" line reports is at the destination. *)
CopiedStays(k) ==
    out[k].line = "Copying" =>
        \A q \in Paths : (IsPrefix(out[k].path, q) /\ exists(src, q)) => dst[q] = src[q]

(* C1: a destination that does not exist, is no directory or lacks         *)
(* pxr/pxr.h.in makes the run fail in validate_usd_dir, with USD_DIR left   *)
(* unset and nothing copied, created, printed or handed to the helper,      *)
(* whichever plugin flags were given.                                       *)
C1_InvalidDestinationRejected ==
    (pc # "start" /\ ~ValidDestination(dstStart)) =>
        /\ pc = "failed"
        /\ error.msg \in {"is not a valid directory", "is not a valid USD repo"}
        /\ error.arg = <<"usd_dir">>
        /\ USD_DIR = "None"
        /\ dst = dstStart
        /\ stack = <<>> /\ out = <<>> /\ calls = <<>> /\ merged = {}

C1_Witness ==
    /\ pc = "failed"
    /\ dst[Root].kind = "dir" /\ dst[Pxr].kind = "dir" /\ dst[PxrH].kind = "none"
    /\ Len(argv) = 2

(* merge_plugin reaching a declared path that is missing under THIS_DIR    *)
(* raises, naming the path, and writes nothing.                            *)
C2_MissingStep ==
    (/\ pc = "plugins" /\ stack # <<>> /\ Top.fn = "merge_plugin"
     /\ Top.i < Len(Files(Top.plugin))
     /\ ~exists(src, Files(Top.plugin)[Top.i + 1]))
    => /\ pc' = "failed"
       /\ error' = Error("dwa_usd_plugins file does not exist",
                         join("THIS_DIR", Files(Top.plugin)[Top.i + 1]))
       /\ dst' = dst /\ out' = out /\ calls' = calls /\ stack' = stack

(* A run stopped by a missing declared path has printed and changed       *)
(* nothing for the later declared paths and kept what it copied.           *)
C2_Stopped ==
    (pc = "failed" /\ error.msg = "dwa_usd_plugins file does not exist") =>
        LET n == stack[1].plugin
            i == stack[1].i + 1
        IN  /\ Len(stack) = 1
            /\ error.arg = join("THIS_DIR", Files(n)[i])
            /\ \A j \in (i + 1)..Len(Files(n)) :
                 /\ LinesBelow(Files(n)[j]) = {}
                 /\ \A q \in Paths : IsPrefix(Files(n)[j], q) => dst[q] = dstStart[q]
            /\ \A j \in 1..(i - 1) : exists(src, Files(n)[j]) /\ exists(dst, Files(n)[j])
            /\ \A k \in 1..Len(out) : CopiedStays(k)

(* C2: when merge_plugin reaches a declared path that is missing under the  *)
(* source root, the run stops with the error naming that path and the step  *)
(* changes nothing at the destination; once stopped so, nothing was printed *)
(* or changed for a later declared path, and what was copied for the        *)
(* earlier ones is still at the destination.                                *)
C2_MissingSourceStops == [][C2_MissingStep]_vars /\ []C2_Stopped

C2_Witness ==
    /\ pc = "failed"
    /\ error = Error("dwa_usd_plugins file does not exist", join("THIS_DIR", CMakeLists))
    /\ \E k \in 1..Len(out) : out[k].line = "Copying" /\ out[k].path = Cmake
    /\ dst[Cmake].kind = "dir"

(* C3 as stated: the lines of a plugin given earlier on the command line    *)
(* all come before the lines of a plugin given later.                       *)
C3_CommandLineOrder ==
    \A j, k \in 1..Len(out) :
        j < k => Pos(argv, out[j].plugin) <= Pos(argv, out[k].plugin)

(* C3: the plugins requested are merged one after another in the order in   *)
(* which AVAILABLE_PLUGINS iterates, whatever the order of the flags: the   *)
(* lines of a plugin earlier in that order all come before the lines of a   *)
(* later one.                                                               *)
C3_TableOrder ==
    /\ \A j, k \in 1..Len(out) :
         j < k => Pos(dictOrder, out[j].plugin) <= Pos(dictOrder, out[k].plugin)
    /\ \A n \in merged :
         stack # <<>> => Pos(dictOrder, n) < Pos(dictOrder, stack[1].plugin)

C3_Witness ==
    /\ pc = "done"
    /\ Len(argv) = 2 /\ argv # dictOrder
    /\ \A n \in PluginNames : \E k \in 1..Len(out) : out[k].plugin = n

(* A step in which the merge program exits with a nonzero status. *)
C4_Step ==
    (Len(calls') = Len(calls) + 1 /\ calls'[Len(calls')].result # 0) =>
        /\ out' = out \o << Line("Merging", Top.path), Line("Failed merge", Top.path) >>
        /\ pc' = pc /\ pc = "plugins"
        /\ error' = NoError
        /\ stack' = Pop
        /\ pi' = pi /\ merged' = merged
        /\ \A q \in Paths : dst'[q].kind = dst[q].kind

(* C4: a nonzero exit status of the merge program is printed as "Failed     *)
(* merge" for the file and raises nothing: the call returns to its caller   *)
(* exactly as after a successful merge, the destination entry keeps its     *)
(* kind, and the run goes on.                                               *)
C4_FailedMergeGoesOn == [][C4_Step]_vars

C4_Witness ==
    /\ pc = "done"
    /\ \E k \in 1..Len(out) :
         /\ out[k].line = "Failed merge" /\ out[k].plugin = "nuke"
         /\ k < Len(out)
         /\ out[Len(out)].plugin = "houdini_hydra"

(* The plugin n was handed to merge_plugin in this run. *)
Called(n) == n \in merged \/ (stack # <<>> /\ stack[1].plugin = n)

(* The source entries at or below the declared paths of the plugin n. *)
SourceOf(n) == { q \in Paths : exists(src, q) /\ \E p \in Declared(n) : IsPrefix(p, q) }

(* What C5 promises of the plugin n once merge_plugin returned. *)
C5_Post(n) ==
    \A p \in Declared(n) :
        /\ dst[p].kind = src[p].kind
        /\ \A q \in Paths : (IsPrefix(p, q) /\ exists(src, q)) => exists(dst, q)
        /\ ~exists(dstStart, p) => \A q \in Paths : IsPrefix(p, q) => dst[q] = src[q]

(* C5 as stated: a plugin whose declared paths all exist at the source is   *)
(* merged to the end, into any validated destination, and then every        *)
(* declared path is at the destination with the source's kind.              *)
C5_AllDeclaredPathsMerged ==
    \A n \in PluginNames :
        (/\ Called(n)
         /\ pc \in {"done", "failed"}
         /\ \A p \in Declared(n) : exists(src, p))
        => (n \in merged /\ C5_Post(n))

(* The plugin n has only regular files and directories at and below its     *)
(* declared paths, and the destination the run began on has, at each of     *)
(* these paths and above it, nothing or an entry of the source's kind.      *)
C5_Clean(n) ==
    /\ \A p \in Declared(n) : exists(src, p)
    /\ \A q \in SourceOf(n) :
         /\ src[q].kind \in {"file", "dir"}
         /\ \A a \in Ancestors(q) \cup {q} : dstStart[a].kind \in {"none", src[a].kind}

(* C5: a plugin whose declared paths all exist at the source and hold only  *)
(* regular files and directories is merged to the end into any validated    *)
(* destination that has no entry of another kind at or above a source       *)
(* entry's path; afterwards every declared path is at the destination with  *)
(* the source's kind, holds every source entry, and equals the source where *)
(* it was absent before.                                                    *)
C5_CleanPluginMerged ==
    \A n \in PluginNames :
        (Called(n) /\ C5_Clean(n) /\ (n \in merged \/ pc \in {"done", "failed"}))
        => (n \in merged /\ C5_Post(n))

C5_Witness ==
    /\ pc = "done"
    /\ "nuke" \in merged /\ C5_Clean("nuke")
    /\ dstStart[Nuke].kind = "dir" /\ dstStart[NukePlugin].kind = "none"
    /\ dstStart[NukeReadme].kind = "file"
    /\ src[NukeMenu].kind = "file" /\ src[NukeReadme].kind = "file"
    /\ dst[NukeMenu] = src[NukeMenu]
    /\ runs = 1

(* C6: without the merge helper, an invocation that follows another with    *)
(* the same command line leaves the destination as it found it, at every    *)
(* step and however the invocations ended.                                  *)
C6_SecondRunChangesNothing ==
    (runs >= 2 /\ ~HAS_MERGE) => dst = dstStart

C6_Witness ==
    /\ runs = 2 /\ ~HAS_MERGE /\ pc = "done"
    /\ Len(argv) = 2
    /\ dst[NukeMenu] = FileEntry(SrcData(NukeMenu))
    /\ dst[CMakeLists] = FileEntry(SrcData(CMakeLists))
    /\ \E k \in 1..Len(out) : out[k].line = "Copying" /\ out[k].path = NukeMenu

(* merge_file is about to run on the path on top of the stack. *)
C7_FileStep == pc = "plugins" /\ stack # <<>> /\ Top.fn = "merge_file"

C7_Copied ==
    LET p == Top.path
    IN  /\ dst'[p] = src[p]
        /\ \A a \in Ancestors(p) : dst'[a].kind = "dir"
        /\ \A q \in Paths : (q # p /\ q \notin Ancestors(p)) => dst'[q] = dst[q]
        /\ out' = Append(out, Line("Copying", p))
        /\ calls' = calls
        /\ pc' = pc /\ stack' = Pop

C7_Merged ==
    LET p == Top.path
    IN  /\ Len(calls') = Len(calls) + 1
        /\ SubSeq(calls', 1, Len(calls)) = calls
        /\ calls'[Len(calls')].cmd =
             << "merge", join("usd_dir", p), join("usd_dir", p), join("THIS_DIR", p) >>
        /\ Len(out') > Len(out)
        /\ SubSeq(out', 1, Len(out)) = out
        /\ out'[Len(out) + 1] = Line("Merging", p)
        /\ \A k \in (Len(out) + 1)..Len(out') : out'[k].line # "Copying"
        /\ \A q \in Paths : q # p => dst'[q] = dst[q]
        /\ pc' = pc /\ stack' = Pop

(* The copy of merge_file raised: the run is over and nothing was written. *)
C7_Raised ==
    /\ pc' = "failed"
    /\ error'.msg \in {"OSError", "IOError"}
    /\ dst' = dst /\ out' = out /\ calls' = calls

(* The destination can take a file at p: nothing or a regular file is at p *)
(* and nothing but directories above it.                                   *)
C7_Writable(p) ==
    /\ dst[p].kind \in {"none", "file"}
    /\ \A a \in Ancestors(p) : dst[a].kind \in {"none", "dir"}

(* C7 as stated: merge_file copies exactly when the destination file does   *)
(* not exist or the helper is unavailable, and the destination then holds   *)
(* the source's content; otherwise it runs the helper once on (destination, *)
(* destination, source) and copies nothing.                                 *)
C7_CopiesOrMerges ==
    [][C7_FileStep =>
         IF ~exists(dst, Top.path) \/ ~HAS_MERGE THEN C7_Copied ELSE C7_Merged]_vars

(* C7: as stated, for a destination path that holds nothing or a regular    *)
(* file below directories only; on any other destination path the copy      *)
(* raises, the run is over and the destination is as it was.                *)
C7_CopiesOrMergesWritable ==
    [][C7_FileStep =>
         IF ~exists(dst, Top.path) \/ ~HAS_MERGE
         THEN IF C7_Writable(Top.path) THEN C7_Copied ELSE C7_Raised
         ELSE C7_Merged]_vars

C7_Witness ==
    /\ ~HAS_MERGE
    /\ dstStart[NukeReadme] = FileEntry(UsdData(NukeReadme))
    /\ dst[NukeReadme] = FileEntry(SrcData(NukeReadme))
    /\ dstStart[NukePlugin].kind = "none"
    /\ dst[NukeMenu] = FileEntry(SrcData(NukeMenu))
    /\ dstStart[Nuke].kind = "dir"
    /\ runs = 1 /\ pc = "done"

(* merge_dir is about to run on a path with nothing at the destination. *)
C8_DirStep ==
    /\ pc = "plugins" /\ stack # <<>>
    /\ Top.fn = "merge_dir" /\ Top.i = 0
    /\ ~exists(dst, Top.path)

C8_Copied ==
    LET p == Top.path
    IN  /\ \A q \in Paths : IsPrefix(p, q) => dst'[q] = src[q]
        /\ \A a \in Ancestors(p) : dst'[a].kind = "dir"
        /\ \A q \in Paths : (~IsPrefix(p, q) /\ q \notin Ancestors(p)) => dst'[q] = dst[q]
        /\ out' = Append(out, Line("Copying", p))
        /\ calls' = calls
        /\ pc' = pc /\ stack' = Pop

(* copytree raised after copying: everything but the special entries is at *)
(* the destination and the run is over.                                    *)
C8_CopiedButSpecial ==
    LET p == Top.path
    IN  /\ \A q \in Paths :
             IsPrefix(p, q) => dst'[q] = IF src[q].kind = "other" THEN NoEntry ELSE src[q]
        /\ out' = Append(out, Line("Copying", p))
        /\ calls' = calls
        /\ pc' = "failed" /\ error' = Error("shutil.Error", p)

(* Creating the directory raised: the run is over and nothing was written. *)
C8_Raised == pc' = "failed" /\ error'.msg = "OSError" /\ dst' = dst /\ calls' = calls

(* A "Copying" line about a directory is the only line about its subtree. *)
C8_OneLine ==
    \A k \in 1..Len(out) :
        (out[k].line = "Copying" /\ isdir(src, out[k].path)) => LinesBelow(out[k].path) = {k}

(* C8 as stated: merge_dir on a path with no entry at the destination       *)
(* leaves the destination subtree equal to the source subtree, with the     *)
(* missing parents created, one "Copying" line and no helper call.          *)
C8_BulkCopy == [][C8_DirStep => C8_Copied]_vars /\ []C8_OneLine

(* C8: as stated, for a source subtree of regular files and directories     *)
(* and a destination with nothing but directories above the path; a source  *)
(* entry that is neither is left out and ends the run after the copy, and   *)
(* a non-directory above the path ends the run with nothing written.        *)
C8_BulkCopyRegular ==
    /\ [][C8_DirStep =>
            IF \E a \in Ancestors(Top.path) : dst[a].kind \notin {"none", "dir"}
            THEN C8_Raised
            ELSE IF \E q \in Paths : IsPrefix(Top.path, q) /\ src[q].kind = "other"
            THEN C8_CopiedButSpecial
            ELSE C8_Copied]_vars
    /\ []C8_OneLine

C8_Witness ==
    /\ HAS_MERGE /\ runs = 1 /\ pc = "done"
    /\ dstStart[ThirdParty].kind = "none"
    /\ dst[NukeMenu] = FileEntry(SrcData(NukeMenu))
    /\ dst[NukeReadme] = FileEntry(SrcData(NukeReadme))
    /\ LinesBelow(Nuke) = {1} /\ out[1] = [line |-> "Copying", path |-> Nuke, plugin |-> "nuke"]
    /\ calls = <<>>

(* merge_dir lists the source directory when the destination has an entry. *)
C9_Lists ==
    (/\ pc = "plugins" /\ stack # <<>> /\ Top.fn = "merge_dir" /\ Top.i = 0
     /\ exists(dst, Top.path))
    => /\ Len(stack') = Len(stack)
       /\ Range(stack'[Len(stack)].items) = Children(src, Top.path)
       /\ Len(stack'[Len(stack)].items) = Cardinality(Children(src, Top.path))
       /\ dst' = dst /\ out' = out

(* merge_dir takes the next entry of the listing by its kind, and returns  *)
(* only when the listing is exhausted.                                     *)
C9_Dispatches ==
    (pc = "plugins" /\ stack # <<>> /\ Top.fn = "merge_dir" /\ Top.i = 1) =>
        IF Top.items = <<>> THEN stack' = Pop /\ pc' = pc
        ELSE LET c == Head(Top.items)
                 rest == SetTop([Top EXCEPT !.items = Tail(@)])
             IN  IF src[c].kind = "file"
                 THEN stack' = Append(rest, Frame("merge_file", Top.plugin, c)) /\ pc' = pc
                 ELSE IF src[c].kind = "dir"
                 THEN stack' = Append(rest, Frame("merge_dir", Top.plugin, c)) /\ pc' = pc
                 ELSE /\ pc' = "failed"
                      /\ error' = Error("Don't know what to do with", << c[Len(c)] >>)
                      /\ dst' = dst /\ out' = out /\ calls' = calls
                      /\ stack' = stack /\ merged' = merged

(* After a fatal error the run takes no further step. *)
C9_Stops == pc = "failed" => (pc' = "start" /\ runs' = runs + 1)

(* C9: merge_dir on a path the destination has an entry for visits every    *)
(* immediate child of the source directory, handing regular files to        *)
(* merge_file and directories to merge_dir; a child that is neither ends    *)
(* the run with a fatal error, nothing more is processed, and what was      *)
(* merged before stays.                                                     *)
C9_ChildrenDispatched == [][C9_Lists /\ C9_Dispatches /\ C9_Stops]_vars

C9_Witness ==
    /\ pc = "failed"
    /\ error = Error("Don't know what to do with", <<"plugin">>)
    /\ \E k \in 1..Len(out) : out[k].path = NukeReadme
    /\ dst[NukeReadme].data # UsdData(NukeReadme)
    /\ Len(argv) = 2 /\ dictOrder[1] = "nuke"

(* The regular source files at or below a declared path of a requested     *)
(* plugin.                                                                  *)
C10_Targets ==
    { q \in Paths : isfile(src, q)
                    /\ \E n \in Range(argv) : \E p \in Declared(n) : IsPrefix(p, q) }

(* What one step may do to the two trees. *)
C10_Step ==
    /\ src' = src
    /\ \A q \in Paths :
         /\ exists(dst, q) => dst'[q].kind = dst[q].kind
         /\ (isfile(dst, q) /\ q \notin C10_Targets) => dst'[q] = dst[q]
         /\ (~exists(dst, q) /\ exists(dst', q)) =>
                (isdir(dst', q) \/ (isfile(dst', q) /\ q \in C10_Targets))

(* C10: no step of any run deletes a destination entry or changes its kind, *)
(* changes a destination file that is not a regular source file under a     *)
(* declared path of a requested plugin, creates anything but directories    *)
(* and such files, or writes to the source tree.                            *)
C10_Frame == [][C10_Step]_vars

C10_Witness ==
    /\ pc = "done" /\ runs = 1 /\ HAS_MERGE
    /\ dst # dstStart
    /\ dst[PxrH] = dstStart[PxrH]
    /\ isfile(dst, NukeReadme) /\ ~exists(src, NukeReadme)
    /\ dst[NukeMenu].data = MergedData(NukeMenu)
    /\ ~exists(dstStart, CMakeLists) /\ isfile(dst, CMakeLists)

====
